---- MODULE Spec2Model ----
(***************************************************************************)
(* Model of scripts/uploadrelease.py: the ADOdb release upload script.     *)
(* Strings are sequences of tokens; file names and versions are spelled   *)
(* character by character so that globbing, the version regular           *)
(* expression, split/rsplit, splitext and int() are computed, not assumed. *)
(***************************************************************************)
EXTENDS Integers, Sequences, FiniteSets, TLC

VARIABLES pc, dry_run, skip_upload, username, release_path, cwd, out,
          procs, reqs, files, idx, exitStatus, version, directory

vars == <<pc, dry_run, skip_upload, username, release_path, cwd, out,
          procs, reqs, files, idx, exitStatus, version, directory>>

\* ------------------------------------------------------------------ bounds
MaxFiles == 3
MaxOpts == 2

\* ------------------------------------------------------- string primitives
Digit == {"0", "1", "2", "3", "4", "5", "6", "7", "8", "9"}

DigitVal(c) ==
    CASE c = "0" -> 0 [] c = "1" -> 1 [] c = "2" -> 2 [] c = "3" -> 3
      [] c = "4" -> 4 [] c = "5" -> 5 [] c = "6" -> 6 [] c = "7" -> 7
      [] c = "8" -> 8 [] c = "9" -> 9

DigitChar(n) ==
    CASE n = 0 -> "0" [] n = 1 -> "1" [] n = 2 -> "2" [] n = 3 -> "3"
      [] n = 4 -> "4" [] n = 5 -> "5" [] n = 6 -> "6" [] n = 7 -> "7"
      [] n = 8 -> "8" [] n = 9 -> "9"

\* int(s) for a string of decimal digits
RECURSIVE int(_)
int(s) ==
    IF Len(s) = 0 THEN 0
    ELSE 10 * int(SubSeq(s, 1, Len(s) - 1)) + DigitVal(s[Len(s)])

\* '{}'.format(n) for a non-negative integer
RECURSIVE format(_)
format(n) ==
    IF n < 10 THEN <<DigitChar(n)>>
    ELSE format(n \div 10) \o <<DigitChar(n % 10)>>

\* s.find(c): index of the first c in s, 0 when absent
find(s, c) ==
    IF \E i \in 1..Len(s) : s[i] = c
    THEN CHOOSE i \in 1..Len(s) : s[i] = c /\ \A j \in 1..(i - 1) : s[j] # c
    ELSE 0

\* s.rfind(c): index of the last c in s, 0 when absent
rfind(s, c) ==
    IF \E i \in 1..Len(s) : s[i] = c
    THEN CHOOSE i \in 1..Len(s) : s[i] = c /\ \A j \in (i + 1)..Len(s) : s[j] # c
    ELSE 0

\* s.split(c)[0], which is also s.rsplit(c)[0]
SplitHead(s, c) ==
    IF find(s, c) = 0 THEN s ELSE SubSeq(s, 1, find(s, c) - 1)

\* s.rsplit(c)[1] for the strings the script splits: the part between the
\* first and the second separator
SplitSecond(s, c) ==
    LET rest == SubSeq(s, find(s, c) + 1, Len(s)) IN SplitHead(rest, c)

\* s.rsplit(c, 1)[0]
RSplitOnceHead(s, c) ==
    IF rfind(s, c) = 0 THEN s ELSE SubSeq(s, 1, rfind(s, c) - 1)

startswith(s, p) == Len(s) >= Len(p) /\ SubSeq(s, 1, Len(p)) = p

endswith(s, p) == Len(s) >= Len(p) /\ SubSeq(s, Len(s) - Len(p) + 1, Len(s)) = p

\* literal p occurs in s at position i
LitAt(s, i, p) == i + Len(p) - 1 <= Len(s) /\ SubSeq(s, i, i + Len(p) - 1) = p

\* position just after the longest run of digits starting at i
RECURSIVE DigitsEnd(_, _)
DigitsEnd(s, i) ==
    IF i <= Len(s) /\ s[i] \in Digit THEN DigitsEnd(s, i + 1) ELSE i
\* --------------------------------------------------------- script globals
\* sf_files = "frs.sourceforge.net:/home/frs/project/adodb/"
sf_files == <<"frs.sourceforge.net", ":", "/home/frs/project/adodb/">>

\* sf_api_url = 'https://sourceforge.net/projects/adodb/files/{}/'
sf_api_url(dir) == <<"https://sourceforge.net/projects/adodb/files/">> \o dir \o <<"/">>

\* rsync_cmd = "rsync -vP --rsh ssh {opt} {src} {usr}@{dst}"
rsync_cmd(usr, opt, src, dst) ==
    <<"rsync -vP --rsh ssh ">> \o opt \o <<" ">> \o src \o <<" ">> \o usr \o <<"@">> \o dst

\* options = "hu:ns", long_options = ["help", "user=", "dry-run", "skip-upload"]
options == {"-h", "-u", "-n", "-s"}
long_options == {"--help", "--user", "--dry-run", "--skip-upload"}

\* requests.codes.ok and requests.codes.unauthorized
codes_ok == 200
codes_unauthorized == 401

\* the literal pieces of the file-name patterns
adodb == <<"a", "d", "o", "d", "b", "-">>
dot_zip == <<".", "z", "i", "p">>
dot_gz == <<".", "g", "z">>

\* ------------------------------------------------------------- globbing
\* glob.glob('adodb-*.zip') over a directory listing, in listing order
IsAdodbZip(name) ==
    startswith(name, adodb) /\ endswith(name, dot_zip)
        /\ Len(name) >= Len(adodb) + Len(dot_zip)

glob_adodb_zip(listing) == SelectSeq(listing, IsAdodbZip)

\* glob.glob('adodb-*')
IsAdodb(name) == startswith(name, adodb)

glob_adodb(listing) == SelectSeq(listing, IsAdodb)

\* glob.glob('*'): every entry that is not a dot file
IsVisible(name) == Len(name) > 0 /\ name[1] # "."

glob_all(listing) == SelectSeq(listing, IsVisible)

\* ------------------------------------------------ the version expression
\* position after "-(alpha|beta|rc)\.[\d]+" matched at i, or 0
SuffixEnd(name, i) ==
    LET Try(lbl) ==
            LET d == i + 1 + Len(lbl) + 1
            IN  IF LitAt(name, i, <<"-">> \o lbl \o <<".">>) /\ DigitsEnd(name, d) > d
                THEN DigitsEnd(name, d) ELSE 0
        a == Try(<<"a", "l", "p", "h", "a">>)
        b == Try(<<"b", "e", "t", "a">>)
        r == Try(<<"r", "c">>)
    IN  IF a # 0 THEN a ELSE IF b # 0 THEN b ELSE r

\* re.search(r"^adodb-([\d]+\.[\d]+\.[\d]+)(-(alpha|beta|rc)\.[\d]+)?\.zip$", name):
\* <<>> when there is no match, <<group(1)>> otherwise
re_search(name) ==
    LET p0 == Len(adodb) + 1
        e1 == DigitsEnd(name, p0)
        e2 == DigitsEnd(name, e1 + 1)
        e3 == DigitsEnd(name, e2 + 1)
        core == /\ startswith(name, adodb)
                /\ e1 > p0 /\ LitAt(name, e1, <<".">>)
                /\ e2 > e1 + 1 /\ LitAt(name, e2, <<".">>)
                /\ e3 > e2 + 1
        ZipEnd(i) == LitAt(name, i, dot_zip) /\ i + Len(dot_zip) - 1 = Len(name)
    IN  IF ~core THEN <<>>
        ELSE IF SuffixEnd(name, e3) # 0 /\ ZipEnd(SuffixEnd(name, e3))
             THEN <<SubSeq(name, p0, e3 - 1)>>
        ELSE IF ZipEnd(e3) THEN <<SubSeq(name, p0, e3 - 1)>>
        ELSE <<>>

\* variant: sys.exit() without a status in the two except blocks
get_release_version_exit0(listing) ==
    LET zips == glob_adodb_zip(listing) IN
    IF Len(zips) = 0
    THEN [status |-> "notfound", version |-> <<>>, zipfile |-> <<>>, exit |-> 0]
    ELSE LET zipfile == zips[1]
             m == re_search(zipfile)
         IN  IF Len(m) = 0
             THEN [status |-> "format", version |-> <<>>, zipfile |-> zipfile, exit |-> 0]
             ELSE [status |-> "ok", version |-> m[1], zipfile |-> zipfile, exit |-> 0]

\* variant: the last adodb-*.zip of the listing instead of the first
get_release_version_last(listing) ==
    LET zips == glob_adodb_zip(listing) IN
    IF Len(zips) = 0
    THEN [status |-> "notfound", version |-> <<>>, zipfile |-> <<>>, exit |-> 1]
    ELSE LET zipfile == zips[Len(zips)]
             m == re_search(zipfile)
         IN  IF Len(m) = 0
             THEN [status |-> "format", version |-> <<>>, zipfile |-> zipfile, exit |-> 1]
             ELSE [status |-> "ok", version |-> m[1], zipfile |-> zipfile, exit |-> 0]

\* get_release_version(): the outcome of the lookup in the listing
\*   status "ok"        version = group(1) of the first adodb-*.zip
\*   status "notfound"  IndexError: no adodb-*.zip, sys.exit(1)
\*   status "format"    AttributeError: the first adodb-*.zip does not match,
\*                      sys.exit(1)
get_release_version(listing) ==
    LET zips == glob_adodb_zip(listing) IN
    IF Len(zips) = 0
    THEN [status |-> "notfound", version |-> <<>>, zipfile |-> <<>>, exit |-> 1]
    ELSE LET zipfile == zips[1]
             m == re_search(zipfile)
         IN  IF Len(m) = 0
             THEN [status |-> "format", version |-> <<>>, zipfile |-> zipfile, exit |-> 1]
             ELSE [status |-> "ok", version |-> m[1], zipfile |-> zipfile, exit |-> 0]

\* ------------------------------------------------- sourceforge_target_dir
\* variant: the pre-release suffix is not cut off before the patch is
sourceforge_target_dir_keep_suffix(v) ==
    LET major_version == int(SplitHead(v, "."))
        base == IF major_version = 5
                THEN <<"a", "d", "o", "d", "b", "-", "p", "h", "p", "5", "-",
                       "o", "n", "l", "y", "/">>
                ELSE <<"a", "d", "o", "d", "b">> \o format(major_version) \o <<"/">>
        short_version == RSplitOnceHead(v, ".")
    IN  base \o adodb \o short_version

sourceforge_target_dir(v) ==
    LET major_version == int(SplitHead(v, "."))
        base == IF major_version = 5
                THEN <<"a", "d", "o", "d", "b", "-", "p", "h", "p", "5", "-",
                       "o", "n", "l", "y", "/">>
                ELSE <<"a", "d", "o", "d", "b">> \o format(major_version) \o <<"/">>
        short_version == RSplitOnceHead(SplitHead(v, "-"), ".")
    IN  base \o adodb \o short_version

\* path.splitext(file)[1] for a name without directory separators
splitext_ext(name) ==
    LET dotIndex == rfind(name, ".")
    IN  IF dotIndex > 0 /\ \E i \in 1..(dotIndex - 1) : name[i] # "."
        THEN SubSeq(name, dotIndex, Len(name))
        ELSE <<>>

\* path.join(a, b) for a relative b
path_join(a, b) ==
    IF Len(a) = 0 \/ a[Len(a)] = "/" THEN a \o b ELSE a \o <<"/">> \o b
\* ------------------------------------------------------------ the inputs
\* file names a release directory may hold
F_zip == adodb \o <<"5", ".", "2", "0", ".", "9">> \o dot_zip
F_zip_beta == adodb \o <<"7", ".", "3", ".", "1", "-", "b", "e", "t", "a", ".", "2">> \o dot_zip
F_gz == adodb \o <<"7", ".", "3", ".", "1", ".", "t", "a", "r">> \o dot_gz
F_zip_bad == adodb \o <<"5", ".", "2", "0">> \o dot_zip
F_txt == adodb \o <<"5", ".", "2", "0", ".", "9", ".", "t", "x", "t">>
F_other == <<"R", "E", "A", "D", "M", "E", ".", "m", "d">>

FileNames == {F_zip, F_zip_beta, F_gz, F_zip_bad, F_txt, F_other}

\* directory listings: distinct names, in any order
Listings ==
    {l \in UNION {[1..n -> FileNames] : n \in 0..MaxFiles} :
        \A i, j \in 1..Len(l) : i # j => l[i] # l[j]}

\* what getopt.gnu_getopt hands back: (opt, val) pairs
OptPairs == {[opt |-> o, val |-> IF o \in {"-u", "--user"} THEN <<"admin">> ELSE <<>>] :
                o \in options \cup long_options}

OptLists == UNION {[1..n -> OptPairs] : n \in 0..MaxOpts}

\* positional arguments: none, a directory that exists, one that does not
GoodPath == <<"/srv/release">>
BadPath == <<"/nonexistent">>
ArgLists == {<<>>, <<GoodPath>>, <<BadPath>>}

\* exit codes of the ssh mkdir and rsync child processes
ExitCodes == {0, 255}

\* outcomes of requests.put: an exception, or a response with a status code
\* and a body that holds result.x_sf.default or does not
Responses ==
    {[raised |-> TRUE, status |-> 0, json |-> FALSE]} \cup
    {[raised |-> FALSE, status |-> codes_ok, json |-> j] : j \in BOOLEAN} \cup
    {[raised |-> FALSE, status |-> st, json |-> FALSE] : st \in {codes_unauthorized, 500}}

\* getpass.getuser() and os.getcwd()
getuser == <<"builder">>
getcwd == <<"/home/builder/release">>

\* env.sf_api_key
sf_api_key == <<"<sf_api_key>">>

\* ------------------------------------------------------------- printing
Line(k, t) == [kind |-> k, text |-> t]

\* usage()
usage == Line("usage", <<"Usage: uploadrelease.py [options] username [release_path]">>)

\* ', '.join(names)
RECURSIVE join_comma(_)
join_comma(names) ==
    IF Len(names) = 0 THEN <<>>
    ELSE IF Len(names) = 1 THEN names[1]
    ELSE names[1] \o <<", ">> \o join_comma(Tail(names))

\* ---------------------------------------------------- process_command_line
\* the for loop over opts, from option i on; st carries the globals, the
\* printed lines and whether -h ended the run
RECURSIVE ProcessOpts(_, _, _)
ProcessOpts(opts, i, st) ==
    IF i > Len(opts) THEN st
    ELSE LET o == opts[i].opt IN
         IF o \in {"-h", "--help"}
         THEN [st EXCEPT !.out = Append(@, usage), !.help = TRUE]
         ELSE IF o \in {"-u", "--user"}
         THEN ProcessOpts(opts, i + 1, [st EXCEPT !.username = opts[i].val])
         ELSE IF o \in {"-s", "--skip-upload"}
         THEN ProcessOpts(opts, i + 1, [st EXCEPT !.skip_upload = TRUE])
         ELSE IF o \in {"-n", "--dry-run"}
         THEN ProcessOpts(opts, i + 1,
                  [st EXCEPT !.dry_run = TRUE,
                             !.out = Append(@, Line("dry_run_notice",
                                 <<"Dry-run mode - files will not be uploaded or modified">>))])
         ELSE ProcessOpts(opts, i + 1, st)

\* --------------------------------------------------------------- call_rsync
\* the two command lines, and what call_rsync does with them: in dry-run
\* mode they are printed, otherwise they are run one after the other
call_rsync_command(usr, opt, src, dst) == rsync_cmd(usr, opt, src, dst)

call_rsync_mkdir(usr, dst) ==
    <<"ssh ">> \o usr \o <<"@">> \o SplitHead(dst, ":") \o <<" mkdir -p ">>
        \o SplitSecond(dst, ":")

\* variant: the dry_run test is missing
call_rsync_always(dry, usr, opt, src, dst) ==
    LET command == call_rsync_command(usr, opt, src, dst)
        mkdir == call_rsync_mkdir(usr, dst)
    IN  [print |-> <<>>,
         exec |-> <<[name |-> "mkdir", cmd |-> mkdir],
                    [name |-> "rsync", cmd |-> command]>>]

\* variant: rsync is run before the directory is created
call_rsync_swapped(dry, usr, opt, src, dst) ==
    LET command == call_rsync_command(usr, opt, src, dst)
        mkdir == call_rsync_mkdir(usr, dst)
    IN  IF dry
        THEN [print |-> <<Line("mkdir", mkdir), Line("rsync", command)>>, exec |-> <<>>]
        ELSE [print |-> <<>>,
              exec |-> <<[name |-> "rsync", cmd |-> command],
                         [name |-> "mkdir", cmd |-> mkdir]>>]

call_rsync(dry, usr, opt, src, dst) ==
    LET command == call_rsync_command(usr, opt, src, dst)
        mkdir == call_rsync_mkdir(usr, dst)
    IN  IF dry
        THEN [print |-> <<Line("mkdir", mkdir), Line("rsync", command)>>, exec |-> <<>>]
        ELSE [print |-> <<>>,
              exec |-> <<[name |-> "mkdir", cmd |-> mkdir],
                         [name |-> "rsync", cmd |-> command]>>]

\* ------------------------------------------------ set_sourceforge_file_info
\* the default platform tags of an extension, <<>> for an unknown one
\* variant: the two tag lists are exchanged
defaults_swapped(ext) ==
    IF ext = dot_gz THEN <<"windows">>
    ELSE IF ext = dot_zip THEN <<"linux", "mac", "bsd", "solaris", "others">>
    ELSE <<>>

defaults(ext) ==
    IF ext = dot_zip THEN <<"windows">>
    ELSE IF ext = dot_gz THEN <<"linux", "mac", "bsd", "solaris", "others">>
    ELSE <<>>

\* what the loop does after a request: go on, leave the loop, or die of an
\* uncaught exception (requests.put raised, or the body of a success
\* response does not decode to result.x_sf.default)
\* variant: continue instead of break after a failed request
api_result_continue(resp) ==
    IF resp.raised THEN "raise"
    ELSE IF resp.status = codes_ok THEN (IF resp.json THEN "continue" ELSE "raise")
    ELSE "continue"

\* variant: a failed request raises, as after req.raise_for_status()
api_result_raise_for_status(resp) ==
    IF resp.raised THEN "raise"
    ELSE IF resp.status = codes_ok THEN (IF resp.json THEN "continue" ELSE "raise")
    ELSE "raise"

api_result(resp) ==
    IF resp.raised THEN "raise"
    ELSE IF resp.status = codes_ok THEN (IF resp.json THEN "continue" ELSE "raise")
    ELSE "break"

\* the line printed for a response
api_print(resp) ==
    IF resp.raised THEN Line("traceback", <<"requests.put">>)
    ELSE IF resp.status = codes_ok
    THEN (IF resp.json THEN Line("api_ok", <<"    Download default for: ", "<result.x_sf.default>">>)
          ELSE Line("traceback", <<"json.loads">>))
    ELSE IF resp.status = codes_unauthorized
    THEN Line("api_error", <<"ERROR: access denied - check API key">>)
    ELSE Line("api_error", <<"ERROR: SourceForge API call failed - check API key">>)
\* the diagnostic get_release_version prints before sys.exit(1)
release_version_error(r, rpath) ==
    IF r.status = "notfound"
    THEN Line("version_error", <<"ERROR: release zip file not found in '">> \o rpath \o <<"'">>)
    ELSE Line("version_error", <<"ERROR: unable to extract version number from '">>
                                   \o r.zipfile \o <<"'">>)

\* ------------------------------------------------------------------ state
Init ==
    /\ pc = "start"
    /\ dry_run = FALSE
    /\ skip_upload = FALSE
    /\ username = getuser
    /\ release_path = <<>>
    /\ cwd = <<>>
    /\ out = <<>>
    /\ procs = <<>>
    /\ reqs = <<>>
    /\ files = <<>>
    /\ idx = 0
    /\ exitStatus = -1
    /\ version = <<>>
    /\ directory = <<>>

\* the process ends with the given status
Exit(code) == pc' = "done" /\ exitStatus' = code

\* main() up to the return of process_command_line, on a command line
\* getopt rejects: the error and the usage text are printed, exit status 2
GetoptError ==
    /\ pc = "start"
    /\ out' = out \o <<Line("banner", <<"ADOdb release upload script">>),
                       Line("getopt_error", <<"GetoptError">>), usage>>
    /\ Exit(2)
    /\ UNCHANGED <<dry_run, skip_upload, username, release_path, cwd, procs, reqs,
                   files, idx, version, directory>>

\* main() up to the return of process_command_line, on a command line
\* getopt accepts
ProcessCommandLine ==
    /\ pc = "start"
    /\ LET st0 == [dry_run |-> dry_run, skip_upload |-> skip_upload,
                   username |-> getuser, help |-> FALSE,
                   out |-> Append(out, Line("banner", <<"ADOdb release upload script">>))]
       IN  \E st \in {ProcessOpts(opts, 1, st0) : opts \in OptLists},
              args \in ArgLists, listing \in Listings :
            /\ dry_run' = st.dry_run
            /\ skip_upload' = st.skip_upload
            /\ username' = st.username
            /\ IF st.help
               THEN /\ out' = st.out
                    /\ Exit(0)
                    /\ UNCHANGED <<release_path, cwd>>
               ELSE IF Len(args) = 0
               THEN /\ release_path' = getcwd
                    /\ cwd' = listing
                    /\ out' = st.out
                    /\ pc' = "main"
                    /\ UNCHANGED exitStatus
               ELSE IF args[1] = BadPath
               THEN \* os.chdir raises FileNotFoundError, which nothing catches
                    /\ release_path' = args[1]
                    /\ out' = Append(st.out, Line("traceback", <<"os.chdir">>))
                    /\ Exit(1)
                    /\ UNCHANGED cwd
               ELSE /\ release_path' = args[1]
                    /\ cwd' = listing
                    /\ out' = st.out
                    /\ pc' = "main"
                    /\ UNCHANGED exitStatus
    /\ UNCHANGED <<procs, reqs, files, idx, version, directory>>

\* variant: the upload is not skipped
main_branch_upload(skip) == "upload"

\* main(): the test of skip_upload
main_branch(skip) == IF skip THEN "skip" ELSE "upload"

\* main(): skip_upload is set, the upload is skipped
SkipUpload ==
    /\ pc = "main"
    /\ main_branch(skip_upload) = "skip"
    /\ out' = Append(out, Line("skip", <<"Skipping upload of release files">>))
    /\ pc' = "info"
    /\ UNCHANGED <<dry_run, skip_upload, username, release_path, cwd, procs, reqs,
                   files, idx, exitStatus, version, directory>>

\* the commands call_rsync still has to run, given the ones already started
Pending == 
    LET c == call_rsync(dry_run, username, <<>>, path_join(release_path, <<"*">>),
                        sf_files \o directory)
        started == Cardinality({i \in 1..Len(procs) : procs[i].ev = "spawn"})
    IN  SubSeq(c.exec, started + 1, Len(c.exec))

\* upload_release_files() up to the first subprocess.call of call_rsync, or
\* to its end in dry-run mode
UploadReleaseFiles ==
    /\ pc = "main"
    /\ main_branch(skip_upload) = "upload"
    /\ LET r == get_release_version(cwd) IN
       IF r.status # "ok"
       THEN /\ out' = Append(out, release_version_error(r, release_path))
            /\ Exit(r.exit)
            /\ UNCHANGED <<version, directory>>
       ELSE LET target == sf_files \o sourceforge_target_dir(r.version)
                c == call_rsync(dry_run, username, <<>>,
                                path_join(release_path, <<"*">>), target)
                head == <<Line("blank", <<>>),
                          Line("uploading", <<"Uploading release files...">>),
                          Line("source", <<"  Source: ">> \o release_path),
                          Line("target", <<"  Target: ">> \o target),
                          Line("files", <<"  Files:  ">> \o join_comma(glob_all(cwd))),
                          Line("blank", <<>>)>>
            IN  /\ version' = r.version
                /\ directory' = sourceforge_target_dir(r.version)
                /\ IF Len(c.exec) = 0
                   THEN /\ out' = out \o head \o c.print \o <<Line("blank", <<>>)>>
                        /\ pc' = "info"
                   ELSE /\ out' = out \o head \o c.print
                        /\ pc' = "call"
                /\ UNCHANGED exitStatus
    /\ UNCHANGED <<dry_run, skip_upload, username, release_path, cwd, procs, reqs,
                   files, idx>>

\* subprocess.call(cmd, shell=True): the child process is started
SubprocessCall ==
    /\ pc = "call"
    /\ Len(Pending) > 0
    /\ procs' = Append(procs, [ev |-> "spawn", name |-> Pending[1].name,
                               cmd |-> Pending[1].cmd, rc |-> 0])
    /\ pc' = "wait"
    /\ UNCHANGED <<dry_run, skip_upload, username, release_path, cwd, out, reqs,
                   files, idx, exitStatus, version, directory>>

\* variant: a failed child process ends the run with its exit code
SubprocessReturn_checked ==
    /\ pc = "wait"
    /\ \E rc \in ExitCodes :
        /\ procs' = Append(procs, [ev |-> "exit", name |-> procs[Len(procs)].name,
                                   cmd |-> procs[Len(procs)].cmd, rc |-> rc])
        /\ IF rc # 0
           THEN out' = out /\ Exit(rc)
           ELSE IF Len(Pending) = 0
           THEN out' = Append(out, Line("blank", <<>>)) /\ pc' = "info"
                    /\ UNCHANGED exitStatus
           ELSE out' = out /\ pc' = "call" /\ UNCHANGED exitStatus
    /\ UNCHANGED <<dry_run, skip_upload, username, release_path, cwd, reqs,
                   files, idx, version, directory>>

\* subprocess.call returns the exit code of the child, which call_rsync
\* drops; after the last command upload_release_files prints a blank line
SubprocessReturn ==
    /\ pc = "wait"
    /\ \E rc \in ExitCodes :
        procs' = Append(procs, [ev |-> "exit", name |-> procs[Len(procs)].name,
                                cmd |-> procs[Len(procs)].cmd, rc |-> rc])
    /\ IF Len(Pending) = 0
       THEN out' = Append(out, Line("blank", <<>>)) /\ pc' = "info"
       ELSE out' = out /\ pc' = "call"
    /\ UNCHANGED <<dry_run, skip_upload, username, release_path, cwd, reqs,
                   files, idx, exitStatus, version, directory>>
\* set_sourceforge_file_info() up to the for loop
SetSourceforgeFileInfo ==
    /\ pc = "info"
    /\ LET r == get_release_version(cwd)
           header == Line("updating", <<"Updating uploaded files information">>)
       IN  IF r.status # "ok"
           THEN /\ out' = out \o <<header, release_version_error(r, release_path)>>
                /\ Exit(r.exit)
                /\ UNCHANGED <<version, directory, files, idx>>
           ELSE /\ out' = Append(out, header)
                /\ version' = r.version
                /\ directory' = sourceforge_target_dir(r.version)
                /\ files' = glob_adodb(cwd)
                /\ idx' = 1
                /\ pc' = "loop"
                /\ UNCHANGED exitStatus
    /\ UNCHANGED <<dry_run, skip_upload, username, release_path, cwd, procs, reqs>>

\* one iteration of the for loop of set_sourceforge_file_info
LoopFile ==
    /\ pc = "loop"
    /\ idx <= Len(files)
    /\ LET file == files[idx]
           tags == defaults(splitext_ext(file))
           url == path_join(sf_api_url(directory), file)
           shown == Append(out, Line("file", <<"  ">> \o file))
       IN  IF Len(tags) = 0
           THEN /\ out' = Append(shown, Line("warning",
                              <<"WARNING: Unknown extension for file ">> \o file))
                /\ idx' = idx + 1
                /\ UNCHANGED <<pc, exitStatus, reqs>>
           ELSE IF dry_run
           THEN /\ out' = Append(shown, Line("api_url",
                              <<"    Calling SourceForge Release API: ">> \o url
                                  \o <<"?default=">> \o tags \o <<"&api_key=">> \o sf_api_key))
                /\ idx' = idx + 1
                /\ UNCHANGED <<pc, exitStatus, reqs>>
           ELSE \E resp \in Responses :
                /\ reqs' = Append(reqs, [file |-> file, url |-> url, default |-> tags,
                                         api_key |-> sf_api_key, resp |-> resp])
                /\ out' = Append(shown, api_print(resp))
                /\ IF api_result(resp) = "continue"
                   THEN idx' = idx + 1 /\ UNCHANGED <<pc, exitStatus>>
                   ELSE IF api_result(resp) = "break"
                   THEN Exit(0) /\ UNCHANGED idx
                   ELSE Exit(1) /\ UNCHANGED idx
    /\ UNCHANGED <<dry_run, skip_upload, username, release_path, cwd, procs, files,
                   version, directory>>

\* the for loop is exhausted; main() returns and the process exits with 0
LoopEnd ==
    /\ pc = "loop"
    /\ idx > Len(files)
    /\ Exit(0)
    /\ UNCHANGED <<dry_run, skip_upload, username, release_path, cwd, out, procs, reqs,
                   files, idx, version, directory>>

Next ==
    \/ GetoptError
    \/ ProcessCommandLine
    \/ SkipUpload
    \/ UploadReleaseFiles
    \/ SubprocessCall
    \/ SubprocessReturn
    \/ SetSourceforgeFileInfo
    \/ LoopFile
    \/ LoopEnd

Spec == Init /\ [][Next]_vars

\* ----------------------------------- sourceforge_target_dir on its own
MaxNum == 2

\* decimal numbers a version component is drawn from
Majors == {0, 5, 7, 10, 15, 50, 55}
Minors == {0, 3, 20, 21}
Patches == {1, 9, 10}
Phases == {<<"a", "l", "p", "h", "a">>, <<"b", "e", "t", "a">>, <<"r", "c">>}

XYZ(x, y, z) == format(x) \o <<".">> \o format(y) \o <<".">> \o format(z)

Versions ==
    {XYZ(x, y, z) : x \in Majors, y \in Minors, z \in Patches} \cup
    {XYZ(x, y, z) \o <<"-">> \o ph \o <<".">> \o format(n) :
        x \in Majors, y \in Minors, z \in Patches, ph \in Phases, n \in 1..MaxNum}

InitTarget ==
    /\ pc = "target"
    /\ version \in Versions
    /\ directory = <<>>
    /\ dry_run = FALSE
    /\ skip_upload = FALSE
    /\ username = getuser
    /\ release_path = <<>>
    /\ cwd = <<>>
    /\ out = <<>>
    /\ procs = <<>>
    /\ reqs = <<>>
    /\ files = <<>>
    /\ idx = 0
    /\ exitStatus = -1

\* sourceforge_target_dir(version) is called and returns
TargetDir ==
    /\ pc = "target"
    /\ directory' = sourceforge_target_dir(version)
    /\ pc' = "returned"
    /\ UNCHANGED <<dry_run, skip_upload, username, release_path, cwd, out, procs, reqs,
                   files, idx, exitStatus, version>>

NextTarget == TargetDir

SpecTarget == InitTarget /\ [][NextTarget]_vars
\* ------------------------------------------------- vocabulary of the claims
Range(s) == {s[i] : i \in 1..Len(s)}

HasLine(k) == \E i \in 1..Len(out) : out[i].kind = k

Lines(k) == LET IsKind(l) == l.kind = k IN SelectSeq(out, IsKind)

\* process_command_line returned to main
CmdLineReturned ==
    /\ pc # "start"
    /\ ~HasLine("usage")
    /\ ~HasLine("getopt_error")
    /\ Line("traceback", <<"os.chdir">>) \notin Range(out)

\* a response with a non-success status code
Failed(resp) == ~resp.raised /\ resp.status # codes_ok

KnownExt(name) == endswith(name, dot_zip) \/ endswith(name, dot_gz)

\* the adodb-* names of the working directory, in listing order
AdodbFiles == SelectSeq(cwd, IsAdodb)

TaggedFiles == SelectSeq(AdodbFiles, KnownExt)

Normal == ~dry_run /\ ~skip_upload

\* the names the archive pattern describes, and the X.Y.Z of such a name
IsArchiveName(name) ==
    /\ startswith(name, adodb)
    /\ endswith(name, dot_zip)
    /\ Len(name) > Len(adodb) + Len(dot_zip)
    /\ SubSeq(name, Len(adodb) + 1, Len(name) - Len(dot_zip)) \in Versions

ArchiveVersions(name) ==
    LET body == SubSeq(name, Len(adodb) + 1, Len(name) - Len(dot_zip))
        core == SplitHead(body, "-")
    IN  {v \in {XYZ(x, y, z) : x \in Majors, y \in Minors, z \in Patches} :
            /\ v = core
            /\ \/ body = v
               \/ \E ph \in Phases, n \in 1..MaxNum :
                     body = v \o <<"-">> \o ph \o <<".">> \o format(n)}

\* the version has been looked up
LookedUp == HasLine("uploading") \/ HasLine("updating") \/ HasLine("version_error")

AdodbZips == LET IsZip(name) == IsAdodb(name) /\ endswith(name, dot_zip)
             IN  SelectSeq(cwd, IsZip)

\* the first adodb-*.zip name of the working directory is an archive name
Resolvable == Len(AdodbZips) > 0 /\ IsArchiveName(AdodbZips[1])

\* C1: once a request has returned a non-success status no further request
\* is sent: a failed request is always the last one of the run.
C1_FailFast ==
    \A i \in 1..Len(reqs) : Failed(reqs[i].resp) => i = Len(reqs)

C1_Witness ==
    /\ pc = "done"
    /\ Len(reqs) >= 1
    /\ Failed(reqs[Len(reqs)].resp)
    /\ \E j \in (idx + 1)..Len(files) : KnownExt(files[j])

\* C2: with dry_run set no child process is started and no request is sent;
\* a dry run that completes has printed the mkdir command and then the rsync
\* command (unless the upload is skipped) and the request URL of every
\* .zip/.gz file, in order.
C2_DryRun ==
    dry_run =>
        /\ procs = <<>>
        /\ reqs = <<>>
        /\ (pc = "done" /\ HasLine("updating") /\ exitStatus = 0) =>
              /\ Len(Lines("api_url")) = Len(TaggedFiles)
              /\ \A k \in 1..Len(TaggedFiles) :
                    startswith(Lines("api_url")[k].text,
                        <<"    Calling SourceForge Release API: ",
                          "https://sourceforge.net/projects/adodb/files/">>
                            \o directory \o <<"/">> \o TaggedFiles[k])
              /\ ~skip_upload =>
                    /\ Len(Lines("mkdir")) = 1
                    /\ Len(Lines("rsync")) = 1
                    /\ \E i, j \in 1..Len(out) :
                          i < j /\ out[i].kind = "mkdir" /\ out[j].kind = "rsync"

C2_Witness ==
    /\ pc = "done"
    /\ dry_run
    /\ ~skip_upload
    /\ Len(Lines("api_url")) >= 2
    /\ HasLine("mkdir")

\* C3: with skip_upload set the transfer never happens (no mkdir or rsync
\* command is built, printed or run), and the metadata stage still runs over
\* the adodb-* files of the working directory.
C3_SkipUpload ==
    skip_upload =>
        /\ procs = <<>>
        /\ ~HasLine("mkdir") /\ ~HasLine("rsync") /\ ~HasLine("uploading")
        /\ (pc = "done" /\ CmdLineReturned) => HasLine("updating")
        /\ (pc = "done" /\ CmdLineReturned /\ exitStatus = 0 /\ ~HasLine("api_error")) =>
              /\ Len(Lines("file")) = Len(AdodbFiles)
              /\ \A k \in 1..Len(AdodbFiles) :
                    Lines("file")[k].text = <<"  ">> \o AdodbFiles[k]

C3_Witness ==
    /\ pc = "done"
    /\ skip_upload
    /\ ~dry_run
    /\ Len(reqs) >= 2
    /\ exitStatus = 0

\* C4: whatever the flags, a run whose working directory has no release
\* archive, or whose archive name does not parse, prints a diagnostic and
\* exits with status 1 before any child process is started and before any
\* request is sent.
C4_NoVersion ==
    (CmdLineReturned /\ ~Resolvable) =>
        /\ procs = <<>>
        /\ reqs = <<>>
        /\ pc = "done" =>
              /\ exitStatus = 1
              /\ out[Len(out)].kind = "version_error"

C4_Witness ==
    /\ pc = "done"
    /\ CmdLineReturned
    /\ exitStatus = 1
    /\ ~dry_run
    /\ ~skip_upload
    /\ Len(AdodbZips) > 0
    /\ ~IsArchiveName(AdodbZips[1])
    /\ HasLine("version_error")
C6_Tags ==
    /\ \A i \in 1..Len(reqs) :
          /\ KnownExt(reqs[i].file)
          /\ endswith(reqs[i].file, dot_zip) =>
                Len(reqs[i].default) = 1 /\ Range(reqs[i].default) = {"windows"}
          /\ endswith(reqs[i].file, dot_gz) =>
                /\ Len(reqs[i].default) = 5
                /\ Range(reqs[i].default) = {"linux", "mac", "bsd", "solaris", "others"}
    /\ \A i \in 1..Len(out) :
          out[i].kind = "warning" =>
              /\ out[i - 1].kind = "file"
              /\ ~KnownExt(SubSeq(out[i - 1].text, 2, Len(out[i - 1].text)))
    /\ \A i \in 1..Len(out) :
          (out[i].kind = "file" /\ ~KnownExt(SubSeq(out[i].text, 2, Len(out[i].text))))
              => (i < Len(out) /\ out[i + 1].kind = "warning")
    /\ (pc = "done" /\ exitStatus = 0 /\ HasLine("updating") /\ ~HasLine("api_error")) =>
          /\ Len(Lines("file")) = Len(AdodbFiles)
          /\ Len(Lines("warning")) = Len(AdodbFiles) - Len(TaggedFiles)
          /\ ~dry_run => Len(reqs) = Len(TaggedFiles)

C6_Witness ==
    /\ pc = "done"
    /\ exitStatus = 0
    /\ Len(reqs) = 2
    /\ endswith(reqs[1].file, dot_zip) /\ endswith(reqs[2].file, dot_gz)
    /\ \E i, j \in 1..Len(out) : i < j /\ out[i].kind = "warning" /\ out[j].kind = "api_ok"

\* C7 as stated: whenever the directory holds a name matching the archive
\* pattern, the lookup returns the version of a matching file, whatever other
\* adodb-*.zip names there are and in whatever order.
C7_AnyMatching ==
    (LookedUp /\ \E i \in 1..Len(cwd) : IsArchiveName(cwd[i])) =>
        /\ ~HasLine("version_error")
        /\ \E i \in 1..Len(cwd) : IsArchiveName(cwd[i]) /\ version \in ArchiveVersions(cwd[i])

\* C7 amended: the lookup considers only the first adodb-*.zip name of the
\* listing: it returns that name's X.Y.Z when the name matches the pattern,
\* fails with the format diagnostic when it does not, and fails with the
\* not-found diagnostic exactly when there is no adodb-*.zip name.
C7_FirstZip ==
    LookedUp =>
        IF Len(AdodbZips) = 0
        THEN /\ exitStatus = 1
             /\ out[Len(out)] = Line("version_error",
                   <<"ERROR: release zip file not found in '">> \o release_path \o <<"'">>)
        ELSE IF IsArchiveName(AdodbZips[1])
        THEN /\ ~HasLine("version_error")
             /\ version \in ArchiveVersions(AdodbZips[1])
        ELSE /\ exitStatus = 1
             /\ out[Len(out)] = Line("version_error",
                   <<"ERROR: unable to extract version number from '">>
                       \o AdodbZips[1] \o <<"'">>)

C7_Witness ==
    /\ LookedUp
    /\ Len(AdodbZips) >= 2
    /\ IsArchiveName(AdodbZips[1])
    /\ ~IsArchiveName(AdodbZips[2])
    /\ version \in ArchiveVersions(AdodbZips[1])
    /\ pc = "done"
\* the child processes that have run to completion, as (name, rc) events
Exited(name) == \E i \in 1..Len(procs) : procs[i].ev = "exit" /\ procs[i].name = name

Spawned(name) == \E i \in 1..Len(procs) : procs[i].ev = "spawn" /\ procs[i].name = name

\* the run died of an exception nothing catches
Uncaught == HasLine("traceback")

\* C8: in normal mode, whatever the exit codes of mkdir and rsync: rsync is
\* run after a failed mkdir, the metadata stage runs after a failed mkdir or
\* rsync, and the exit status of the run is the one the metadata stage alone
\* determines.
C8_TransferIgnored ==
    (Normal /\ pc = "done" /\ Spawned("mkdir")) =>
        /\ Spawned("rsync") /\ Exited("rsync")
        /\ HasLine("updating")
        /\ exitStatus = (IF Uncaught THEN 1 ELSE 0)

C8_Witness ==
    /\ Normal
    /\ pc = "done"
    /\ Len(procs) = 4
    /\ procs[2].rc # 0
    /\ procs[4].rc # 0
    /\ Len(reqs) >= 1
    /\ exitStatus = 0

\* C9: in a run that performs the transfer, mkdir is run exactly once and
\* has completed before rsync starts, rsync is run exactly once, and no
\* request is sent before rsync has completed.
C9_TransferOrder ==
    /\ Len(procs) <= 4
    /\ \A i \in 1..Len(procs) :
          /\ procs[i].ev = (IF i % 2 = 1 THEN "spawn" ELSE "exit")
          /\ procs[i].name = (IF i <= 2 THEN "mkdir" ELSE "rsync")
    /\ (Normal /\ (Len(reqs) > 0 \/ HasLine("updating"))) => Len(procs) = 4
    /\ (Normal /\ pc = "done" /\ HasLine("uploading")) => Len(procs) = 4

C9_Witness ==
    /\ Normal
    /\ pc = "done"
    /\ Len(procs) = 4
    /\ Len(reqs) >= 2

\* C10 as stated: every run that gets past option parsing without help and
\* resolves the version ends with exit status 0; exit status 1 only comes
\* with a missing archive or an unparsable version, exit status 2 only with
\* an option-parsing failure.
C10_ExitZero ==
    pc = "done" =>
        /\ (CmdLineReturned /\ Resolvable) => exitStatus = 0
        /\ exitStatus = 1 => HasLine("version_error")
        /\ exitStatus = 2 => HasLine("getopt_error")

\* C10 amended: a non-success API status is never reflected in the exit
\* status: a run that resolves the version ends with exit status 0 unless an
\* exception goes uncaught; exit status 1 comes only with a missing archive,
\* an unparsable version or an uncaught exception, exit status 2 only with an
\* option-parsing failure.
C10_ExitStatus ==
    pc = "done" =>
        /\ exitStatus \in {0, 1, 2}
        /\ (CmdLineReturned /\ Resolvable /\ ~Uncaught)
              => exitStatus = 0
        /\ exitStatus = 1 => (HasLine("version_error") \/ Uncaught)
        /\ exitStatus = 2 => HasLine("getopt_error")
        /\ (\E i \in 1..Len(reqs) : Failed(reqs[i].resp)) => exitStatus = 0

C10_Witness ==
    /\ pc = "done"
    /\ exitStatus = 0
    /\ Len(reqs) >= 1
    /\ ~reqs[Len(reqs)].resp.raised
    /\ reqs[Len(reqs)].resp.status = codes_unauthorized
    /\ HasLine("api_error")
====
